---- MODULE Spec2Model ----
(***************************************************************************)
(* Directory service: buildings, organizations, phones and a hierarchy of  *)
(* activities (categories).  The store is the relational schema of         *)
(* app/models; every HTTP handler of app/api/endpoints is one action.      *)
(* A request runs in one session: a failed commit leaves the store as it   *)
(* was before the request.                                                 *)
(***************************************************************************)
EXTENDS Integers, Sequences, FiniteSets, TLC

VARIABLES
    activities,               \* table activities: id -> [name, parent_id, level]
    buildings,                \* table buildings: id -> [address, latitude, longitude]
    organizations,            \* table organizations: id -> [name, building_id]
    phones,                   \* table phones: id -> number
    organization_phones,      \* link table: set of <<organization_id, phone_id>>
    organization_activities,  \* link table: set of <<organization_id, activity_id>>
    foreign_keys,             \* whether the database enforces FOREIGN KEY clauses
    request,                  \* the last request handled
    response                  \* its status and body

vars == <<activities, buildings, organizations, phones, organization_phones,
          organization_activities, foreign_keys, request, response>>

store == <<activities, buildings, organizations, phones, organization_phones,
           organization_activities>>

-----------------------------------------------------------------------------
(* Bounds of the model *)

MaxRows == 2            \* rows a table holds in the read-write specifications
MaxActivities == 4      \* activity ids of the stores SpecRead starts from
MaxTagged == 3          \* activity ids of the stores SpecLookup starts from
MaxDepth == 3           \* max_level arguments are drawn up to MaxDepth
MaxOrganizations == 1   \* organization rows in SpecOrg
MaxCoordinate == 1      \* latitudes, longitudes and radii are drawn from 0..MaxCoordinate

(* Python's None in an integer column or argument; ids start at 1 *)
None == 0
(* None in a string column *)
NoneStr == "None"

RowIds == 1..MaxRows
ActivityIds == 1..MaxActivities
TaggedIds == 1..MaxTagged
ActivityNames == {"Food", "Dairy"}
ActivityLevels == {1, 2}

-----------------------------------------------------------------------------
(* Generic helpers *)

Max(S) == CHOOSE x \in S : \A y \in S : y <= x
Min(S) == CHOOSE x \in S : \A y \in S : x <= y

RECURSIVE SortedSeq(_)
SortedSeq(S) == IF S = {} THEN <<>> ELSE <<Min(S)>> \o SortedSeq(S \ {Min(S)})

Range(seq) == {seq[k] : k \in DOMAIN seq}

HasDuplicates(seq) == \E j, k \in DOMAIN seq : j # k /\ seq[j] = seq[k]

EmptyTable == [i \in {} |-> None]

(* INTEGER PRIMARY KEY of a new row: one more than the largest id in use *)
NextId(table) == IF DOMAIN table = {} THEN 1 ELSE Max(DOMAIN table) + 1

(* Remove a row *)
Without(table, id) == [i \in DOMAIN table \ {id} |-> table[i]]

(* Add or replace a row *)
With(table, id, row) == [i \in DOMAIN table \cup {id} |-> IF i = id THEN row ELSE table[i]]

(* Requests are handled one at a time: a handler runs from the idle state,  *)
(* request and response hold what it was given and what it answered, and    *)
(* reply sends the response and returns to the idle state                   *)
NoRequest == [op |-> "none"]
NoResponse == [status |-> None, error |-> "", body |-> None]

Ok(body) == [status |-> 200, error |-> "", body |-> body]
Failed(status, error) == [status |-> status, error |-> error, body |-> None]

(* not_found(entity): HTTPException 404, "<entity> not found" *)
not_found_as_400(entity) ==
    Failed(400, CASE entity = "Activity" -> "Activity not found"
                  [] entity = "Organization" -> "Organization not found"
                  [] entity = "Building" -> "Building not found")

not_found(entity) ==
    Failed(404, CASE entity = "Activity" -> "Activity not found"
                  [] entity = "Organization" -> "Organization not found"
                  [] entity = "Building" -> "Building not found")

Idle == request = NoRequest

reply ==
    /\ ~Idle
    /\ request' = NoRequest
    /\ response' = NoResponse
    /\ UNCHANGED <<activities, buildings, organizations, phones, organization_phones,
                   organization_activities, foreign_keys>>

-----------------------------------------------------------------------------
(* Activities: schema *)

(* Column and table constraints of Activity, checked by the database at commit *)
ActivityConstraints(acts, fk) ==
    \A i \in DOMAIN acts :
        /\ acts[i].name # NoneStr
        /\ acts[i].level # None
        /\ acts[i].parent_id = None \/ acts[i].parent_id # i
        /\ fk => (acts[i].parent_id = None \/ acts[i].parent_id \in DOMAIN acts)

(* select(Activity): the rows in rowid order *)
ActivityRows(acts) ==
    LET ids == SortedSeq(DOMAIN acts)
    IN [k \in 1..Len(ids) |->
            [id |-> ids[k], name |-> acts[ids[k]].name,
             parent_id |-> acts[ids[k]].parent_id, level |-> acts[ids[k]].level]]

(* ActivityUpdate: every field defaults to None; fields_set names the sent ones *)
ActivityPatches ==
    {p \in [fields_set : SUBSET {"name", "parent_id", "level"},
            name : ActivityNames \cup {NoneStr},
            parent_id : RowIds \cup {None},
            level : ActivityLevels \cup {None}] :
        /\ "name" \notin p.fields_set => p.name = NoneStr
        /\ "parent_id" \notin p.fields_set => p.parent_id = None
        /\ "level" \notin p.fields_set => p.level = None}

(* apply_patch: setattr for each field of dict(exclude_unset=True) *)
apply_patch(db_obj, update_schema) ==
    [f \in DOMAIN db_obj |->
        IF f \in update_schema.fields_set THEN update_schema[f] ELSE db_obj[f]]

(* The self-reference test of update_activity *)
SelfReferenceDropped(activity_id, activity_in) == FALSE

SelfReference(activity_id, activity_in) ==
    activity_in.parent_id # None /\ activity_in.parent_id = activity_id

-----------------------------------------------------------------------------
(* Activities: handlers of app/api/endpoints/activity.py *)

ActivityCreates ==
    [name : ActivityNames, parent_id : RowIds \cup {None}, level : ActivityLevels]

(* selectinload(Activity.children) chained: the row with its children       *)
(* loaded, theirs, and so on for the given number of levels                 *)
RECURSIVE selectinload(_, _, _)
selectinload(acts, activity_id, levels) ==
    LET children == SortedSeq({c \in DOMAIN acts : acts[c].parent_id = activity_id})
    IN [id |-> activity_id, name |-> acts[activity_id].name,
        parent_id |-> acts[activity_id].parent_id, level |-> acts[activity_id].level,
        children |-> IF levels = 0
                     THEN <<>>
                     ELSE [k \in 1..Len(children) |->
                              selectinload(acts, children[k], levels - 1)]]

(* The rows the given number of parent-to-child steps below a row *)
RECURSIVE StepsBelow(_, _, _)
StepsBelow(acts, activity_id, steps) ==
    IF steps = 0
    THEN {a \in DOMAIN acts : a = activity_id}
    ELSE {c \in DOMAIN acts : acts[c].parent_id \in StepsBelow(acts, activity_id, steps - 1)}

(* response_model=ActivityRead, from_attributes: the response is built by   *)
(* reading children of the returned object and of every object below it.   *)
(* The three chained selectinload load the children of the row and of the   *)
(* rows one and two steps below it. A row three steps below is loaded       *)
(* without its children: reading them is a lazy load, which the async       *)
(* session refuses (MissingGreenlet); where such a row is one already met   *)
(* (a parent cycle) its children are loaded and the nesting has no end,     *)
(* which the validation refuses. Either way the request ends in HTTP 500    *)
ActivityRead(acts, activity_id) ==
    IF StepsBelow(acts, activity_id, 3) # {}
    THEN Failed(500, "children not loaded")
    ELSE Ok(selectinload(acts, activity_id, 3))

(* POST /activities/ : CRUDBase.create, then the row is read back *)
create_activity(activity_in) ==
    LET id == NextId(activities)
        added == With(activities, id, activity_in)
    IN /\ Idle
       /\ id <= MaxRows
       /\ request' = [op |-> "create_activity", parent_id |-> activity_in.parent_id]
       /\ IF ActivityConstraints(added, foreign_keys)
          THEN /\ activities' = added
               /\ response' = ActivityRead(added, id)
          ELSE /\ activities' = activities
               /\ response' = Failed(500, "IntegrityError")
       /\ UNCHANGED <<buildings, organizations, phones, organization_phones,
                      organization_activities, foreign_keys>>

(* PATCH /activities/{activity_id} *)
update_activity(activity_id, activity_in) ==
    /\ Idle
    /\ request' = [op |-> "update_activity", id |-> activity_id,
                   parent_id |-> activity_in.parent_id]
    /\ IF activity_id \notin DOMAIN activities
       THEN /\ activities' = activities
            /\ response' = not_found("Activity")
       ELSE IF SelfReference(activity_id, activity_in)
       THEN /\ activities' = activities
            /\ response' = Failed(400, "self-reference")
       ELSE LET patched == [activities EXCEPT
                               ![activity_id] = apply_patch(@, activity_in)]
            IN IF ActivityConstraints(patched, foreign_keys)
               THEN /\ activities' = patched
                    /\ response' = ActivityRead(patched, activity_id)
               ELSE /\ activities' = activities
                    /\ response' = Failed(500, "IntegrityError")
    /\ UNCHANGED <<buildings, organizations, phones, organization_phones,
                   organization_activities, foreign_keys>>

(* session.delete(db_activity): the unit of work sets parent_id of the rows  *)
(* in Activity.children to NULL (the backref has no delete cascade) and      *)
(* deletes the activity's rows of the secondary table                       *)
DeleteActivityRow(acts, activity_id) ==
    [i \in DOMAIN acts \ {activity_id} |->
        IF acts[i].parent_id = activity_id
        THEN [acts[i] EXCEPT !.parent_id = None]
        ELSE acts[i]]

(* session.delete(db_activity): the unit of work deletes the rows of the     *)
(* secondary table of Activity.organizations that name the activity         *)
LinksKept(links, activity_id) == links

DeleteLinks(links, activity_id) == {l \in links : l[2] # activity_id}

(* DELETE /activities/{activity_id} *)
delete_activity(activity_id) ==
    /\ Idle
    /\ request' = [op |-> "delete_activity", id |-> activity_id]
    /\ IF activity_id \notin DOMAIN activities
       THEN /\ UNCHANGED <<activities, organization_activities>>
            /\ response' = not_found("Activity")
       ELSE /\ activities' = DeleteActivityRow(activities, activity_id)
            /\ organization_activities' =
                   DeleteLinks(organization_activities, activity_id)
            /\ response' = Ok(None)
    /\ UNCHANGED <<buildings, organizations, phones, organization_phones,
                   foreign_keys>>

(* GET /activities/{activity_id} *)
get_activity(activity_id) ==
    /\ Idle
    /\ request' = [op |-> "get_activity", id |-> activity_id]
    /\ response' = IF activity_id \notin DOMAIN activities
                   THEN not_found("Activity")
                   ELSE ActivityRead(activities, activity_id)
    /\ UNCHANGED <<store, foreign_keys>>

-----------------------------------------------------------------------------
(* The category store under create, update and delete *)

InitCat ==
    /\ activities = EmptyTable
    /\ buildings = EmptyTable
    /\ organizations = EmptyTable
    /\ phones = EmptyTable
    /\ organization_phones = {}
    /\ organization_activities = {}
    /\ foreign_keys \in BOOLEAN
    /\ request = NoRequest
    /\ response = NoResponse

NextCat ==
    \/ Idle /\ \E activity_in \in ActivityCreates : create_activity(activity_in)
    \/ Idle /\ \E activity_id \in RowIds, activity_in \in ActivityPatches :
           update_activity(activity_id, activity_in)
    \/ Idle /\ \E activity_id \in RowIds : delete_activity(activity_id)
    \/ reply

SpecCat == InitCat /\ [][NextCat]_vars

(* C1: updating an existing category with parent_id equal to its own id     *)
(* answers 400 and leaves the stored category as it was, whatever else the  *)
(* patch carries.                                                           *)
C1_SelfReferenceRejected ==
    [][(/\ request'.op = "update_activity"
        /\ request'.id \in DOMAIN activities
        /\ request'.parent_id = request'.id)
       => (/\ response'.status = 400
           /\ activities' = activities)]_vars

C1_Witness ==
    /\ request.op = "update_activity"
    /\ request.id \in DOMAIN activities
    /\ request.parent_id = request.id
    /\ response.status = 400

-----------------------------------------------------------------------------
(* Descendant resolver: app/api/endpoints/organization.py *)

(* The recursive term of activity_cte: the rows whose parent_id is the id of *)
(* a row of the previous round, while that round's level is below max_level *)
LevelGuardInclusive(level, max_level) == level <= max_level

LevelGuard(level, max_level) == level < max_level

RECURSIVE activity_cte(_, _, _, _)
activity_cte(acts, rows, level, max_level) ==
    IF rows = {}
    THEN {}
    ELSE rows \cup
         IF LevelGuard(level, max_level)
         THEN activity_cte(acts, {a \in DOMAIN acts : acts[a].parent_id \in rows},
                           level + 1, max_level)
         ELSE {}

(* The non-recursive term: the row whose id is activity_id, at level 1 *)
AnchorUnchecked(acts, activity_id) == {activity_id}

Anchor(acts, activity_id) == {a \in DOMAIN acts : a = activity_id}

(* get_activity_descendants: select(cte.c.id).distinct() *)
get_activity_descendants(acts, activity_id, max_level) ==
    activity_cte(acts, Anchor(acts, activity_id), 1, max_level)

-----------------------------------------------------------------------------
(* Tree assembler: app/api/endpoints/activity.py *)

(* activity_map[act.parent_id] = [act] in place of setdefault(...).append(act) *)
activity_map_overwritten(rows) ==
    [p \in {rows[k].parent_id : k \in DOMAIN rows} |->
        LET acts == SelectSeq(rows, LAMBDA act : act.parent_id = p)
        IN <<acts[Len(acts)]>>]

(* activity_map: parent_id -> the rows with that parent_id, in input order *)
activity_map(rows) ==
    [p \in {rows[k].parent_id : k \in DOMAIN rows} |->
        SelectSeq(rows, LAMBDA act : act.parent_id = p)]

CutoffLate(level, max_level) == level > max_level + 1

Cutoff(level, max_level) == level > max_level

RECURSIVE build_nodes(_, _, _, _)
build_nodes(map, parent_id, level, max_level) ==
    IF Cutoff(level, max_level)
    THEN <<>>
    ELSE LET acts == IF parent_id \in DOMAIN map THEN map[parent_id] ELSE <<>>
         IN [k \in 1..Len(acts) |->
                [id |-> acts[k].id, name |-> acts[k].name,
                 parent_id |-> acts[k].parent_id, level |-> acts[k].level,
                 children |-> build_nodes(map, acts[k].id, level + 1, max_level)]]

build_activity_tree(rows, max_level) ==
    build_nodes(activity_map(rows), None, 1, max_level)

-----------------------------------------------------------------------------
(* Read-only requests *)

(* get_activity_descendants is called by the organization lookups *)
resolve(activity_id, max_level) ==
    /\ Idle
    /\ request' = [op |-> "get_activity_descendants", id |-> activity_id,
                   max_level |-> max_level]
    /\ response' = Ok(get_activity_descendants(activities, activity_id, max_level))
    /\ UNCHANGED <<store, foreign_keys>>

(* GET /activities/tree *)
get_activity_tree(max_level) ==
    /\ Idle
    /\ request' = [op |-> "get_activity_tree", max_level |-> max_level]
    /\ response' = Ok(build_activity_tree(ActivityRows(activities), max_level))
    /\ UNCHANGED <<store, foreign_keys>>

(* The rows a relationship collection of organization org holds *)
Linked(links, org) == {l[2] : l \in {m \in links : m[1] = org}}

(* select(Organization).join(organization_activities).where(              *)
(* activity_id IN ids): one row per matching link, by organization id and  *)
(* then activity id                                                        *)
JoinRows(links, ids) ==
    LET matching == {l \in links : l[2] \in ids}
        orgs == SortedSeq({l[1] : l \in matching})
        RECURSIVE rowsFrom(_)
        rowsFrom(k) ==
            IF k > Len(orgs) THEN <<>>
            ELSE LET acts == SortedSeq({l[2] : l \in {m \in matching : m[1] = orgs[k]}})
                 IN [j \in 1..Len(acts) |-> orgs[k]] \o rowsFrom(k + 1)
    IN rowsFrom(1)

(* .offset(offset).limit(limit) *)
Page(rows, offset, limit) ==
    SubSeq(rows, offset + 1, IF offset + limit < Len(rows) THEN offset + limit ELSE Len(rows))

(* ids: the resolver's result at the default max_level = 3 when tree is set, *)
(* else the given id alone                                                  *)
MatchedIdsExact(acts, activity_id, tree) == {activity_id}

MatchedIdsTree(acts, activity_id, tree) == get_activity_descendants(acts, activity_id, 3)

MatchedIds(acts, activity_id, tree) ==
    IF tree THEN get_activity_descendants(acts, activity_id, 3) ELSE {activity_id}

(* _get_by_activity_id *)
get_by_activity_id(activity_id, limit, offset, tree) ==
    Page(JoinRows(organization_activities, MatchedIds(activities, activity_id, tree)),
         offset, limit)

Offsets == {0, 1}
Limits == {1, 2}

(* GET /organizations/by_activity_tree/{activity_id} *)
get_organizations_by_activity_tree(activity_id, limit, offset) ==
    /\ Idle
    /\ request' = [op |-> "get_organizations_by_activity_tree", id |-> activity_id,
                   limit |-> limit, offset |-> offset]
    /\ response' = Ok(get_by_activity_id(activity_id, limit, offset, TRUE))
    /\ UNCHANGED <<store, foreign_keys>>

(* GET /organizations/by_activity/{activity_id} *)
get_organizations_by_activity(activity_id, tree, limit, offset) ==
    /\ Idle
    /\ request' = [op |-> "get_organizations_by_activity", id |-> activity_id,
                   tree |-> tree, limit |-> limit, offset |-> offset]
    /\ response' =
          Ok(Page(JoinRows(organization_activities,
                           MatchedIds(activities, activity_id, tree)), offset, limit))
    /\ UNCHANGED <<store, foreign_keys>>

(* Buildings and the organization the read-only specification starts with  *)
SeedBuildings ==
    (1 :> [address |-> "Lenina 1", latitude |-> 0, longitude |-> 0]) @@
    (2 :> [address |-> "Bluhera 32", latitude |-> 1, longitude |-> 1])

ReadOrganizations == (1 :> [name |-> "Roga", building_id |-> 1])

(* The activity tables the store can hold: any set of ids, any parent_id the *)
(* constraints admit                                                        *)
ActivityTables(ids, fk) ==
    LET rowsOf(S) == [S -> [name : {"Food"}, parent_id : ids \cup {None}, level : {1}]]
    IN {acts \in UNION {rowsOf(S) : S \in SUBSET ids} : ActivityConstraints(acts, fk)}

(* Reads never consult foreign_keys, and a table the database admits with   *)
(* foreign keys enforced is admitted without: the read-only specifications  *)
(* start from the tables admitted without                                   *)
InitRead ==
    /\ foreign_keys = FALSE
    /\ activities \in ActivityTables(ActivityIds, foreign_keys)
    /\ buildings = SeedBuildings
    /\ organizations = ReadOrganizations
    /\ phones = EmptyTable
    /\ organization_phones = {}
    /\ organization_activities = {}
    /\ request = NoRequest
    /\ response = NoResponse

NextRead ==
    \/ Idle /\ \E activity_id \in ActivityIds, max_level \in 1..MaxDepth :
           resolve(activity_id, max_level)
    \/ Idle /\ \E max_level \in 0..MaxDepth : get_activity_tree(max_level)
    \/ Idle /\ \E activity_id \in ActivityIds : get_activity(activity_id)
    \/ reply

SpecRead == InitRead /\ [][NextRead]_vars

(* Lookups of organizations by category, from any activity table and any    *)
(* links of the organization to its rows                                    *)
InitLookup ==
    /\ foreign_keys = FALSE
    /\ activities \in ActivityTables(TaggedIds, foreign_keys)
    /\ buildings = SeedBuildings
    /\ organizations = ReadOrganizations
    /\ phones = EmptyTable
    /\ organization_phones = {}
    /\ organization_activities \in
           SUBSET ((DOMAIN ReadOrganizations) \X (DOMAIN activities))
    /\ request = NoRequest
    /\ response = NoResponse

NextLookup ==
    \/ Idle /\ \E activity_id \in TaggedIds, max_level \in 1..MaxDepth :
           resolve(activity_id, max_level)
    \/ Idle /\ \E activity_id \in TaggedIds, limit \in Limits, offset \in Offsets :
           get_organizations_by_activity_tree(activity_id, limit, offset)
    \/ Idle /\ \E activity_id \in TaggedIds, tree \in BOOLEAN,
                   limit \in Limits, offset \in Offsets :
           get_organizations_by_activity(activity_id, tree, limit, offset)
    \/ reply

SpecLookup == InitLookup /\ [][NextLookup]_vars

(* The row reached from row a by following parent_id n times (None when the *)
(* chain ends first)                                                        *)
RECURSIVE Ancestor(_, _, _)
Ancestor(acts, a, n) ==
    IF n = 0 THEN a
    ELSE IF a \in DOMAIN acts THEN Ancestor(acts, acts[a].parent_id, n - 1)
    ELSE None

(* a is a row at most k parent-to-child steps below r *)
WithinSteps(acts, r, a, k) ==
    /\ a \in DOMAIN acts
    /\ \E n \in 0..k : Ancestor(acts, a, n) = r

(* C2: for an existing root the resolver returns exactly the categories at   *)
(* most max_level - 1 parent-to-child steps below the root, the root         *)
(* included.                                                                 *)
C2_DescendantClosure ==
    (/\ request.op = "get_activity_descendants"
     /\ request.id \in DOMAIN activities)
    => response.body =
         {a \in ActivityIds : WithinSteps(activities, request.id, a, request.max_level - 1)}

(* A chain root -> child -> grandchild resolved with a cap that keeps the   *)
(* child and drops the grandchild                                           *)
C2_Witness ==
    /\ request.op = "get_activity_descendants"
    /\ request.id \in DOMAIN activities
    /\ \E b, c \in DOMAIN activities :
          /\ activities[b].parent_id = request.id
          /\ activities[c].parent_id = b
          /\ c # request.id
          /\ b \in response.body
          /\ c \notin response.body

(* The nodes of a nested tree with their structural depth, the top level   *)
(* being depth 1                                                            *)
RECURSIVE TreeNodes(_, _)
TreeNodes(nodes, depth) ==
    UNION {{<<depth, nodes[k]>>} \cup TreeNodes(nodes[k].children, depth + 1) :
              k \in DOMAIN nodes}

(* C4: for max_level >= 1 the tree has no node deeper than max_level and a  *)
(* node at depth max_level has no children attached.                        *)
C4_DepthTruncation ==
    (/\ request.op = "get_activity_tree"
     /\ request.max_level >= 1)
    => \A n \in TreeNodes(response.body, 1) :
          /\ n[1] <= request.max_level
          /\ n[1] = request.max_level => n[2].children = <<>>

(* A node emitted at depth max_level without children, although the input   *)
(* holds a child of it                                                      *)
C4_Witness ==
    /\ request.op = "get_activity_tree"
    /\ request.max_level >= 1
    /\ \E n \in TreeNodes(response.body, 1) :
          /\ n[1] = request.max_level
          /\ n[2].children = <<>>
          /\ \E c \in DOMAIN activities : activities[c].parent_id = n[2].id

(* C23: reading an existing category by id answers that category with its   *)
(* descendants nested, no node of the response more than two                *)
(* parent-to-child steps below it, whatever lies deeper in the store        *)
C23_NestedToDepthThree ==
    (request.op = "get_activity" /\ request.id \in DOMAIN activities)
       => /\ response.status = 200
          /\ response.body.id = request.id
          /\ \A n \in TreeNodes(<<response.body>>, 1) : n[1] <= 3

(* C3: the resolver's result holds the root exactly when the root exists: a  *)
(* childless existing root resolves to itself alone, a missing root to the   *)
(* empty set, and the subtree lookup of a missing root answers an empty page *)
(* without an error.                                                         *)
C3_RootIffExists ==
    /\ request.op = "get_activity_descendants" =>
          /\ request.id \in response.body <=> request.id \in DOMAIN activities
          /\ (/\ request.id \in DOMAIN activities
              /\ \A a \in DOMAIN activities : activities[a].parent_id # request.id)
             => response.body = {request.id}
          /\ request.id \notin DOMAIN activities => response.body = {}
    /\ (/\ request.op = "get_organizations_by_activity_tree"
        /\ request.id \notin DOMAIN activities)
       => response.status = 200 /\ response.body = <<>>

(* A missing root looked up while a row still names it as its parent and    *)
(* that row is linked to an organization                                    *)
C3_Witness ==
    /\ request.op = "get_organizations_by_activity_tree"
    /\ request.id \notin DOMAIN activities
    /\ \E l \in organization_activities : activities[l[2]].parent_id = request.id
    /\ response.body = <<>>

(* The request is a by-category lookup that follows the hierarchy *)
TreeLookup ==
    \/ request.op = "get_organizations_by_activity_tree"
    \/ request.op = "get_organizations_by_activity" /\ request.tree

(* The request is a by-category lookup by exact match *)
ExactLookup == request.op = "get_organizations_by_activity" /\ ~request.tree

(* The page holds every row of the result: it starts at the first row and   *)
(* is shorter than limit                                                    *)
WholeResult == request.offset = 0 /\ Len(response.body) < request.limit

(* C11: a lookup that follows the hierarchy returns only organizations      *)
(* linked to a category of the resolver's result for the given id at depth  *)
(* 3, and a page that holds the whole result returns every such             *)
(* organization.                                                            *)
C11_TreeLookupIntersects ==
    TreeLookup =>
        LET ids == get_activity_descendants(activities, request.id, 3)
            tagged == {o \in DOMAIN organizations :
                          Linked(organization_activities, o) \cap ids # {}}
        IN /\ response.status = 200
           /\ Range(response.body) \subseteq tagged
           /\ WholeResult => Range(response.body) = tagged

(* Food -> Dairy -> Cheese, the organization linked to Dairy alone, looked   *)
(* up by Food                                                               *)
C11_Witness ==
    /\ TreeLookup
    /\ \E food, dairy, cheese \in DOMAIN activities :
          /\ request.id = food
          /\ activities[food].parent_id = None
          /\ activities[dairy].parent_id = food
          /\ activities[cheese].parent_id = dairy
          /\ organization_activities = {<<1, dairy>>}
    /\ response.body = <<1>>

(* C12: a lookup by exact match returns only organizations linked to the    *)
(* given category itself, and a page that holds the whole result returns    *)
(* every such organization; one linked only to ancestors or descendants of  *)
(* the category is not returned.                                            *)
C12_ExactLookupContains ==
    ExactLookup =>
        LET tagged == {o \in DOMAIN organizations :
                          request.id \in Linked(organization_activities, o)}
        IN /\ response.status = 200
           /\ Range(response.body) \subseteq tagged
           /\ WholeResult => Range(response.body) = tagged

(* Food -> Dairy -> Cheese, the organization linked to Food and to Cheese,   *)
(* looked up by Dairy                                                       *)
C12_Witness ==
    /\ ExactLookup
    /\ \E food, dairy, cheese \in DOMAIN activities :
          /\ request.id = dairy
          /\ activities[food].parent_id = None
          /\ activities[dairy].parent_id = food
          /\ activities[cheese].parent_id = dairy
          /\ organization_activities = {<<1, food>>, <<1, cheese>>}
    /\ response.body = <<>>

(* C18: a page of a by-category lookup has at most limit entries and no     *)
(* organization occupies more than one slot of it                           *)
C18_PageWithoutRepeats ==
    (TreeLookup \/ ExactLookup)
        => /\ Len(response.body) <= request.limit
           /\ ~HasDuplicates(response.body)

(* C19: the categories form a forest: no category is its own parent, and    *)
(* following parent_id from a category never leads back to it               *)
C19_Forest ==
    \A a \in DOMAIN activities :
        \A n \in 1..Cardinality(DOMAIN activities) :
            Ancestor(activities, a, n) # a

(* C13 as stated: after a successful delete of a category, no category     *)
(* that had it among its ancestors, at any depth, is still stored.          *)
C13_DescendantsDeleted ==
    [][(/\ request'.op = "delete_activity"
        /\ response'.status = 200)
       => \A a \in DOMAIN activities :
             WithinSteps(activities, request'.id, a, Cardinality(DOMAIN activities))
                => a \notin DOMAIN activities']_vars

-----------------------------------------------------------------------------
(* The tree assembler on any list of rows: build_activity_tree as a         *)
(* function of its argument, the rows in any order                          *)

(* The lists of rows with distinct ids, each with a parent_id that is None  *)
(* or another id, present in the list or not                                *)
RowLists(ids) ==
    LET RowsOf(id) == [id : {id}, name : {"Food"},
                       parent_id : (ids \ {id}) \cup {None}, level : {1}]
        RECURSIVE Lists(_)
        Lists(left) ==
            {<<>>} \cup UNION {{<<row>> \o rest : row \in RowsOf(id),
                                                 rest \in Lists(left \ {id})} :
                                 id \in left}
    IN Lists(ids)

build(rows, max_level) ==
    /\ Idle
    /\ request' = [op |-> "build_activity_tree", activities |-> rows,
                   max_level |-> max_level]
    /\ response' = Ok(build_activity_tree(rows, max_level))
    /\ UNCHANGED <<store, foreign_keys>>

InitTree ==
    /\ foreign_keys = FALSE
    /\ activities = EmptyTable
    /\ buildings = EmptyTable
    /\ organizations = EmptyTable
    /\ phones = EmptyTable
    /\ organization_phones = {}
    /\ organization_activities = {}
    /\ request = NoRequest
    /\ response = NoResponse

NextTree ==
    \/ Idle /\ \E rows \in RowLists(TaggedIds), max_level \in 1..MaxDepth :
           build(rows, max_level)
    \/ reply

SpecTree == InitTree /\ [][NextTree]_vars

(* The ids of a list of rows or nodes, in its order *)
IdsOf(nodes) == [k \in DOMAIN nodes |-> nodes[k].id]

(* The ids of a nested tree, every node once per place it takes *)
RECURSIVE Flatten(_)
Flatten(nodes) ==
    IF nodes = <<>>
    THEN <<>>
    ELSE <<Head(nodes).id>> \o Flatten(Head(nodes).children) \o Flatten(Tail(nodes))

(* C22: for max_level >= 1 the top level of the assembled tree is the rows  *)
(* without a parent in input order; a node above depth max_level has as     *)
(* children the rows that name it as parent, in input order; no row is      *)
(* emitted twice; and a row is emitted at depth d only if d - 1 parent      *)
(* steps lead from it to a row without a parent, so rows under a missing    *)
(* parent or on a cycle are not emitted                                     *)
C22_TreeAssembled ==
    request.op = "build_activity_tree" =>
        LET rows == request.activities
            table == [i \in Range(IdsOf(rows)) |->
                         CHOOSE row \in Range(rows) : row.id = i]
            ChildrenOf(parent_id) ==
                IdsOf(SelectSeq(rows, LAMBDA row : row.parent_id = parent_id))
        IN /\ IdsOf(response.body) = ChildrenOf(None)
           /\ ~HasDuplicates(Flatten(response.body))
           /\ \A n \in TreeNodes(response.body, 1) :
                 /\ n[1] < request.max_level
                       => IdsOf(n[2].children) = ChildrenOf(n[2].id)
                 /\ LET top == Ancestor(table, n[2].id, n[1] - 1)
                    IN top \in DOMAIN table /\ table[top].parent_id = None

(* A root listed between its two children, the child with the larger id     *)
(* first: the children are emitted in that order                            *)
C22_Witness ==
    /\ request.op = "build_activity_tree"
    /\ request.max_level = 2
    /\ IdsOf(request.activities) = <<3, 1, 2>>
    /\ IdsOf(response.body) = <<1>>
    /\ IdsOf(response.body[1].children) = <<3, 2>>

-----------------------------------------------------------------------------
(* The descendant resolver as the database evaluates it: the recursive      *)
(* common table expression of get_activity_descendants, one round at a time *)

(* select(cte.c.id).distinct(): the first occurrence of each id *)
RowsAsEmitted(ids) == ids

RECURSIVE distinct(_)
distinct(ids) ==
    IF ids = <<>>
    THEN <<>>
    ELSE <<Head(ids)>> \o distinct(SelectSeq(Tail(ids), LAMBDA x : x # Head(ids)))

(* The query is being evaluated: no response yet *)
Evaluating == request.op = "activity_cte" /\ response = NoResponse

(* The non-recursive term: the working table holds the row whose id is      *)
(* activity_id, at level 1                                                  *)
cte_anchor(activity_id, max_level) ==
    /\ Idle
    /\ request' = [op |-> "activity_cte", id |-> activity_id, max_level |-> max_level,
                   level |-> 1, rounds |-> 0,
                   working |-> Anchor(activities, activity_id),
                   ids |-> SortedSeq(Anchor(activities, activity_id))]
    /\ response' = NoResponse
    /\ UNCHANGED <<store, foreign_keys>>

(* One round of the recursive term over a working table that is not empty:  *)
(* the rows whose parent_id is the id of a row of the working table, where  *)
(* that row's level is below max_level; union_all keeps every row           *)
cte_recursive ==
    /\ Evaluating
    /\ request.working # {}
    /\ LET joined == {a \in DOMAIN activities :
                         /\ activities[a].parent_id \in request.working
                         /\ LevelGuard(request.level, request.max_level)}
       IN request' = [request EXCEPT !.level = @ + 1, !.rounds = @ + 1,
                                     !.working = joined,
                                     !.ids = @ \o SortedSeq(joined)]
    /\ UNCHANGED <<response, store, foreign_keys>>

(* The working table is empty: the outer select reads the ids *)
cte_select ==
    /\ Evaluating
    /\ request.working = {}
    /\ response' = Ok(distinct(request.ids))
    /\ UNCHANGED <<request, store, foreign_keys>>

InitCte ==
    /\ foreign_keys = FALSE
    /\ activities \in ActivityTables(RowIds, foreign_keys)
    /\ buildings = SeedBuildings
    /\ organizations = ReadOrganizations
    /\ phones = EmptyTable
    /\ organization_phones = {}
    /\ organization_activities = {}
    /\ request = NoRequest
    /\ response = NoResponse

NextCte ==
    \/ Idle /\ \E activity_id \in RowIds, max_level \in 1..MaxDepth :
           cte_anchor(activity_id, max_level)
    \/ cte_recursive
    \/ cte_select
    \/ ~Evaluating /\ reply

(* The database runs a query it has started to its end *)
SpecCte ==
    /\ InitCte
    /\ [][NextCte]_vars
    /\ WF_vars(cte_recursive)
    /\ WF_vars(cte_select)

(* C20: every evaluation of the resolver's query, on stores with parent     *)
(* cycles too, comes to its answer, having run at most max_level rounds of  *)
(* the recursive term, and the answer holds each id at most once            *)
C20_ResolverTerminates ==
    Evaluating ~> /\ request.op = "activity_cte"
                  /\ response.status = 200
                  /\ request.rounds <= request.max_level
                  /\ ~HasDuplicates(response.body)

(* An answer on a store where the given category is its own grandparent:    *)
(* max_level rounds were run and an id was emitted more than once           *)
C20_Witness ==
    /\ request.op = "activity_cte"
    /\ response.status = 200
    /\ Ancestor(activities, request.id, 2) = request.id
    /\ request.rounds = request.max_level
    /\ HasDuplicates(request.ids)
    /\ ~HasDuplicates(response.body)

-----------------------------------------------------------------------------
(* Organizations, buildings and phones: schema and unit of work *)

OrganizationNames == {"Roga"}
PhoneNumbers == {"2-222-222"}

SeedActivities ==
    (1 :> [name |-> "Food", parent_id |-> None, level |-> 1]) @@
    (2 :> [name |-> "Dairy", parent_id |-> 1, level |-> 2])

(* None in a list argument *)
NoIds == <<None>>
NoNumbers == <<NoneStr>>

(* Column constraints of Organization, checked by the database *)
OrganizationConstraints(orgs, blds, fk) ==
    \A i \in DOMAIN orgs :
        /\ orgs[i].name # NoneStr
        /\ orgs[i].building_id # None
        /\ fk => orgs[i].building_id \in DOMAIN blds

(* The unit of work on a secondary table at a flush: one INSERT per element *)
(* of the collection that was not in it at the previous flush, one DELETE   *)
(* per element that left it; the pair is the table's primary key            *)
Added(links, org, collection) ==
    SelectSeq(collection, LAMBDA x : x \notin Linked(links, org))

MergeLinks(links, org, collection) ==
    links \cup {<<org, x>> : x \in Range(collection)}

FlushLinks(links, org, collection) ==
    {l \in links : l[1] # org \/ l[2] \in Range(collection)}
        \cup {<<org, x>> : x \in Range(collection)}

(* The session of one request: the phones table and the two secondary       *)
(* tables as flushed so far, the two collections of the organization,       *)
(* whether every statement so far was accepted, and whether an element was  *)
(* appended again after its link was flushed                                *)
Session(phs, ophones, oacts, org) ==
    [ok |-> TRUE, requeued |-> FALSE, phones |-> phs,
     organization_phones |-> ophones, organization_activities |-> oacts,
     phone_list |-> SortedSeq(Linked(ophones, org)),
     activity_list |-> SortedSeq(Linked(oacts, org))]

(* session.flush(), also run by the session before every select (autoflush) *)
flush(s, org) ==
    [s EXCEPT
        !.ok = /\ s.ok
               /\ ~HasDuplicates(Added(s.organization_phones, org, s.phone_list))
               /\ ~HasDuplicates(Added(s.organization_activities, org, s.activity_list)),
        !.organization_phones = FlushLinks(@, org, s.phone_list),
        !.organization_activities = FlushLinks(@, org, s.activity_list)]

(* for number in phone_numbers: get_or_create_phone, then append *)
RECURSIVE append_phones(_, _, _)
append_phones(s, org, phone_numbers) ==
    IF phone_numbers = <<>>
    THEN s
    ELSE LET number == Head(phone_numbers)
             selected == flush(s, org)
             found == {i \in DOMAIN selected.phones : selected.phones[i] = number}
             id == IF found = {} THEN NextId(selected.phones) ELSE Min(found)
         IN append_phones(
                [selected EXCEPT
                    !.phones = With(@, id, number),
                    !.phone_list = Append(@, id),
                    !.requeued = @ \/ id \in Linked(selected.organization_phones, org)],
                org, Tail(phone_numbers))

(* for activity_id in activity_ids: activity_crud.get, then append if found *)
RECURSIVE append_activities(_, _, _, _)
append_activities(s, org, acts, activity_ids) ==
    IF activity_ids = <<>>
    THEN s
    ELSE LET activity_id == Head(activity_ids)
             selected == flush(s, org)
         IN append_activities(
                IF activity_id \in DOMAIN acts
                THEN [selected EXCEPT
                         !.activity_list = Append(@, activity_id),
                         !.requeued =
                             @ \/ activity_id
                                     \in Linked(selected.organization_activities, org)]
                ELSE selected,
                org, acts, Tail(activity_ids))

(* db_obj.phones = [] and db_obj.activities = [] *)
KeptCollection(collection) == collection

EmptyCollection(collection) == <<>>

(* _update_phones *)
update_phones(s, org, phone_numbers) ==
    append_phones([s EXCEPT !.phone_list = EmptyCollection(@)], org, phone_numbers)

(* _update_activities *)
update_activities(s, org, acts, activity_ids) ==
    append_activities([s EXCEPT !.activity_list = EmptyCollection(@)],
                      org, acts, activity_ids)

(* OrganizationRead built from the ORM object *)
Hydrate(orgs, phs, ophones, oacts, id) ==
    [id |-> id, name |-> orgs[id].name, building |-> orgs[id].building_id,
     phones |-> {phs[i] : i \in Linked(ophones, id)},
     activities |-> Linked(oacts, id)]

(* The response of a handler that returns the organization: response_model  *)
(* OrganizationRead needs its building                                      *)
OrganizationResponse(orgs, blds, s, id) ==
    IF orgs[id].building_id \in DOMAIN blds
    THEN Ok(Hydrate(orgs, s.phones, s.organization_phones,
                    s.organization_activities, id))
    ELSE Failed(500, "ResponseValidationError")

-----------------------------------------------------------------------------
(* Organizations: app/crud/organization.py, app/api/endpoints/organization.py *)

BuildingIds == {1, 2, 3}
PhoneLists == {<<>>, <<"2-222-222">>, <<"2-222-222", "2-222-222">>}
ActivityIdLists == {<<>>, <<3>>, <<1, 1>>, <<2, 1>>}

OrganizationCreates ==
    [name : OrganizationNames, building_id : BuildingIds,
     phone_numbers : PhoneLists, activity_ids : ActivityIdLists]

(* OrganizationUpdate: every field defaults to None; a list that is None is *)
(* left alone whether it was sent or not                                    *)
ScalarPatches ==
    {p \in [fields_set : SUBSET {"building_id"}, name : {NoneStr},
            building_id : BuildingIds \cup {None}] :
        "building_id" \in p.fields_set <=> p.building_id # None}

OrganizationPatches ==
    {[fields_set |-> p.fields_set
                       \cup (IF phone_numbers # NoNumbers THEN {"phone_numbers"} ELSE {})
                       \cup (IF activity_ids # NoIds THEN {"activity_ids"} ELSE {}),
      name |-> p.name, building_id |-> p.building_id,
      phone_numbers |-> phone_numbers, activity_ids |-> activity_ids] :
        p \in ScalarPatches,
        phone_numbers \in PhoneLists \cup {NoNumbers},
        activity_ids \in ActivityIdLists \cup {NoIds}}

(* The request ends without a commit: get_async_session closes the session *)
(* and what was flushed is discarded                                        *)
RollbackKept(committed, flushed) == flushed

Rollback(committed, flushed) == committed

(* An append of an element whose link is already flushed leaves the         *)
(* organization's collection without a net change, and queues the           *)
(* organization on the element's unloaded collection (back_populates).      *)
(* Whether the unit of work inserts the pair again from that side, and the  *)
(* primary key of the secondary table refuses it, depends on the installed  *)
(* SQLAlchemy: both outcomes are kept                                       *)
BackrefInserts(s) == IF s.requeued THEN BOOLEAN ELSE {FALSE}

(* The store after the commit, or unchanged after a rollback *)
Commit(orgs, s, id, backref_insert) ==
    IF /\ s.ok
       /\ ~backref_insert
       /\ OrganizationConstraints(orgs, buildings, foreign_keys)
    THEN /\ organizations' = orgs
         /\ phones' = s.phones
         /\ organization_phones' = s.organization_phones
         /\ organization_activities' = s.organization_activities
         /\ response' = OrganizationResponse(orgs, buildings, s, id)
    ELSE /\ organizations' = organizations
         /\ phones' = Rollback(phones, s.phones)
         /\ organization_phones' = Rollback(organization_phones, s.organization_phones)
         /\ organization_activities' =
                Rollback(organization_activities, s.organization_activities)
         /\ response' = Failed(500, "IntegrityError")

(* POST /organizations/ : OrganizationCRUD.create *)
create_organization(organization_in) ==
    LET id == NextId(organizations)
        orgs == With(organizations, id,
                     [name |-> organization_in.name,
                      building_id |-> organization_in.building_id])
        added == [Session(phones, organization_phones, organization_activities, id)
                     EXCEPT !.phone_list = <<>>, !.activity_list = <<>>]
        with_phones == append_phones(added, id, organization_in.phone_numbers)
        with_activities == append_activities(with_phones, id, activities,
                                             organization_in.activity_ids)
    IN /\ Idle
       /\ id <= MaxOrganizations
       /\ request' = [op |-> "create_organization",
                      building_id |-> organization_in.building_id,
                      phone_numbers |-> organization_in.phone_numbers,
                      activity_ids |-> organization_in.activity_ids]
       /\ \E backref_insert \in BackrefInserts(with_activities) :
              Commit(orgs, flush(with_activities, id), id, backref_insert)
       /\ UNCHANGED <<activities, buildings, foreign_keys>>

(* PATCH /organizations/{organization_id} : OrganizationCRUD.update *)
update_organization(organization_id, organization_in) ==
    /\ Idle
    /\ request' = [op |-> "update_organization", id |-> organization_id,
                   patch |-> organization_in]
    /\ IF organization_id \notin DOMAIN organizations
       THEN /\ UNCHANGED <<organizations, phones, organization_phones,
                           organization_activities>>
            /\ response' = not_found("Organization")
       ELSE LET loaded == Session(phones, organization_phones,
                                  organization_activities, organization_id)
                with_phones ==
                    IF organization_in.phone_numbers # NoNumbers
                    THEN update_phones(loaded, organization_id,
                                       organization_in.phone_numbers)
                    ELSE loaded
                with_activities ==
                    IF organization_in.activity_ids # NoIds
                    THEN update_activities(with_phones, organization_id, activities,
                                           organization_in.activity_ids)
                    ELSE with_phones
                row == [f \in {"name", "building_id"} |->
                           IF f \in organization_in.fields_set
                           THEN organization_in[f]
                           ELSE organizations[organization_id][f]]
                orgs == [organizations EXCEPT ![organization_id] = row]
            IN \E backref_insert \in BackrefInserts(with_activities) :
                   Commit(orgs, flush(with_activities, organization_id),
                          organization_id, backref_insert)
    /\ UNCHANGED <<activities, buildings, foreign_keys>>

(* DELETE /organizations/{organization_id}: the unit of work deletes the    *)
(* organization's rows of both secondary tables                             *)
delete_organization(organization_id) ==
    /\ Idle
    /\ request' = [op |-> "delete_organization", id |-> organization_id]
    /\ IF organization_id \notin DOMAIN organizations
       THEN /\ UNCHANGED <<organizations, organization_phones, organization_activities>>
            /\ response' = not_found("Organization")
       ELSE /\ organizations' = Without(organizations, organization_id)
            /\ organization_phones' =
                   {l \in organization_phones : l[1] # organization_id}
            /\ organization_activities' =
                   {l \in organization_activities : l[1] # organization_id}
            /\ response' = Ok(None)
    /\ UNCHANGED <<activities, buildings, phones, foreign_keys>>

-----------------------------------------------------------------------------
(* Buildings: app/api/endpoints/building.py *)

NoOrganizations(orgs, building_id) == {}

(* selectinload(Building.organizations) *)
OrganizationsOf(orgs, building_id) ==
    {o \in DOMAIN orgs : orgs[o].building_id = building_id}

(* DELETE /buildings/{building_id} *)
delete_building(building_id) ==
    /\ Idle
    /\ request' = [op |-> "delete_building", id |-> building_id]
    /\ IF building_id \notin DOMAIN buildings
       THEN /\ buildings' = buildings
            /\ response' = Failed(404, "Building not found")
       ELSE IF OrganizationsOf(organizations, building_id) # {}
       THEN /\ buildings' = buildings
            /\ response' = Failed(400, "organizations reference the building")
       ELSE /\ buildings' = Without(buildings, building_id)
            /\ response' = Ok(None)
    /\ UNCHANGED <<activities, organizations, phones, organization_phones,
                   organization_activities, foreign_keys>>

-----------------------------------------------------------------------------
(* Organizations and buildings under create, update and delete, from the    *)
(* seeded buildings and activities                                          *)

InitOrg ==
    /\ activities = SeedActivities
    /\ buildings = SeedBuildings
    /\ organizations = EmptyTable
    /\ phones = EmptyTable
    /\ organization_phones = {}
    /\ organization_activities = {}
    /\ foreign_keys \in BOOLEAN
    /\ request = NoRequest
    /\ response = NoResponse

NextOrg ==
    \/ Idle /\ \E organization_in \in OrganizationCreates : create_organization(organization_in)
    \/ Idle /\ \E organization_id \in 1..MaxOrganizations,
          organization_in \in OrganizationPatches :
           update_organization(organization_id, organization_in)
    \/ Idle /\ \E organization_id \in 1..MaxOrganizations : delete_organization(organization_id)
    \/ Idle /\ \E building_id \in BuildingIds : delete_building(building_id)
    \/ reply

SpecOrg == InitOrg /\ [][NextOrg]_vars

-----------------------------------------------------------------------------
(* The by-location lookup: app/api/endpoints/organization.py *)

(* float | None: <<>> is None, <<x>> holds x *)
Optional(S) == {<<>>} \cup {<<x>> : x \in S}

Coordinates == 0..MaxCoordinate

LocationQuery ==
    [lat : Coordinates, lon : Coordinates, radius : Optional(Coordinates),
     min_lat : Optional(Coordinates), max_lat : Optional(Coordinates),
     min_lon : Optional(Coordinates), max_lon : Optional(Coordinates)]

RadiusTruthy(params) == params.radius # <<>> /\ params.radius[1] # 0

(* params.radius is not None *)
RadiusSet(params) == params.radius # <<>>

(* None not in (min_lat, max_lat, min_lon, max_lon) *)
BoundsSet(params) ==
    <<>> \notin {params.min_lat, params.max_lat, params.min_lon, params.max_lon}

InRadiusOpen(building, params) ==
    (building.latitude - params.lat) * (building.latitude - params.lat)
        + (building.longitude - params.lon) * (building.longitude - params.lon)
        < params.radius[1] * params.radius[1]

InRadius(building, params) ==
    (building.latitude - params.lat) * (building.latitude - params.lat)
        + (building.longitude - params.lon) * (building.longitude - params.lon)
        <= params.radius[1] * params.radius[1]

InBox(building, params) ==
    /\ building.latitude >= params.min_lat[1]
    /\ building.latitude <= params.max_lat[1]
    /\ building.longitude >= params.min_lon[1]
    /\ building.longitude <= params.max_lon[1]

(* select(Organization).join(Building).where(...): the organizations whose  *)
(* building is one of the matching rows, in id order                        *)
JoinBuilding(orgs, matching) ==
    SortedSeq({o \in DOMAIN orgs : orgs[o].building_id \in matching})

(* GET /organizations/by_location *)
get_organizations_by_location(params, limit, offset) ==
    /\ Idle
    /\ request' = [op |-> "get_organizations_by_location", params |-> params,
                   limit |-> limit, offset |-> offset]
    /\ response' =
          IF RadiusSet(params)
          THEN Ok(Page(JoinBuilding(organizations,
                                    {b \in DOMAIN buildings : InRadius(buildings[b], params)}),
                       offset, limit))
          ELSE IF BoundsSet(params)
          THEN Ok(Page(JoinBuilding(organizations,
                                    {b \in DOMAIN buildings : InBox(buildings[b], params)}),
                       offset, limit))
          ELSE Failed(400, "radius or bounds required")
    /\ UNCHANGED <<activities, buildings, organizations, phones, organization_phones,
                   organization_activities, foreign_keys>>

GeoOrganizations ==
    (1 :> [name |-> "Roga", building_id |-> 1]) @@
    (2 :> [name |-> "Kopyta", building_id |-> 2])

InitGeo ==
    /\ activities = EmptyTable
    /\ buildings \in [DOMAIN SeedBuildings ->
                         [address : {"Lenina 1"}, latitude : Coordinates,
                          longitude : Coordinates]]
    /\ organizations = GeoOrganizations
    /\ phones = EmptyTable
    /\ organization_phones = {}
    /\ organization_activities = {}
    /\ foreign_keys = FALSE
    /\ request = NoRequest
    /\ response = NoResponse

NextGeo ==
    \/ Idle /\ \E params \in LocationQuery, limit \in Limits, offset \in Offsets :
           get_organizations_by_location(params, limit, offset)
    \/ reply

SpecGeo == InitGeo /\ [][NextGeo]_vars

-----------------------------------------------------------------------------
(* Buildings read and updated by id: app/api/endpoints/building.py *)

(* BuildingUpdate: every field defaults to None *)
BuildingPatches ==
    {p \in [fields_set : SUBSET {"address", "latitude"},
            address : {"Lenina 1", NoneStr},
            latitude : Optional({0}), longitude : {<<>>}] :
        /\ "address" \notin p.fields_set => p.address = NoneStr
        /\ "latitude" \notin p.fields_set => p.latitude = <<>>}

(* A sent field that is None: the columns of Building are nullable=False *)
BuildingNulls(building_in) ==
    \/ "address" \in building_in.fields_set /\ building_in.address = NoneStr
    \/ "latitude" \in building_in.fields_set /\ building_in.latitude = <<>>
    \/ "longitude" \in building_in.fields_set /\ building_in.longitude = <<>>

BuildingRead(blds, building_id) ==
    [id |-> building_id, address |-> blds[building_id].address,
     latitude |-> blds[building_id].latitude,
     longitude |-> blds[building_id].longitude]

(* GET /buildings/{building_id} *)
get_building(building_id) ==
    /\ Idle
    /\ request' = [op |-> "get_building", id |-> building_id]
    /\ response' = IF building_id \notin DOMAIN buildings
                   THEN not_found("Building")
                   ELSE Ok(BuildingRead(buildings, building_id))
    /\ UNCHANGED <<store, foreign_keys>>

(* PATCH /buildings/{building_id} *)
update_building(building_id, building_in) ==
    /\ Idle
    /\ request' = [op |-> "update_building", id |-> building_id]
    /\ IF building_id \notin DOMAIN buildings
       THEN /\ buildings' = buildings
            /\ response' = not_found("Building")
       ELSE IF BuildingNulls(building_in)
       THEN /\ buildings' = buildings
            /\ response' = Failed(500, "IntegrityError")
       ELSE LET old == buildings[building_id]
                row == [address |-> IF "address" \in building_in.fields_set
                                    THEN building_in.address ELSE old.address,
                        latitude |-> IF "latitude" \in building_in.fields_set
                                     THEN building_in.latitude[1] ELSE old.latitude,
                        longitude |-> IF "longitude" \in building_in.fields_set
                                      THEN building_in.longitude[1] ELSE old.longitude]
                patched == [buildings EXCEPT ![building_id] = row]
            IN /\ buildings' = patched
               /\ response' = Ok(BuildingRead(patched, building_id))
    /\ UNCHANGED <<activities, organizations, phones, organization_phones,
                   organization_activities, foreign_keys>>

-----------------------------------------------------------------------------
(* Every handler addressed by an id, on the seeded store, with ids that     *)
(* resolve and ids that do not                                              *)

ParentPatches == {p \in ActivityPatches : p.fields_set \subseteq {"parent_id"}}

BuildingOnlyPatches ==
    {p \in OrganizationPatches :
        p.phone_numbers = NoNumbers /\ p.activity_ids \in {NoIds, <<>>}}

InitIds ==
    /\ activities = SeedActivities
    /\ buildings = SeedBuildings
    /\ organizations = ReadOrganizations
    /\ phones = (1 :> "2-222-222")
    /\ organization_phones = {<<1, 1>>}
    /\ organization_activities = {<<1, 1>>}
    /\ foreign_keys \in BOOLEAN
    /\ request = NoRequest
    /\ response = NoResponse

NextIds ==
    \/ Idle /\ \E activity_id \in 1..MaxRows + 1 : get_activity(activity_id)
    \/ Idle /\ \E activity_id \in 1..MaxRows + 1, activity_in \in ParentPatches :
           update_activity(activity_id, activity_in)
    \/ Idle /\ \E activity_id \in 1..MaxRows + 1 : delete_activity(activity_id)
    \/ Idle /\ \E organization_id \in 1..MaxOrganizations + 1,
                   organization_in \in BuildingOnlyPatches :
           update_organization(organization_id, organization_in)
    \/ Idle /\ \E organization_id \in 1..MaxOrganizations + 1 :
           delete_organization(organization_id)
    \/ Idle /\ \E building_id \in BuildingIds : get_building(building_id)
    \/ Idle /\ \E building_id \in BuildingIds, building_in \in BuildingPatches :
           update_building(building_id, building_in)
    \/ Idle /\ \E building_id \in BuildingIds : delete_building(building_id)
    \/ reply

SpecIds == InitIds /\ [][NextIds]_vars

(* The id of the request resolves to no row of the table its handler reads *)
Unresolved ==
    \/ /\ request'.op \in {"get_activity", "update_activity", "delete_activity"}
       /\ request'.id \notin DOMAIN activities
    \/ /\ request'.op \in {"update_organization", "delete_organization"}
       /\ request'.id \notin DOMAIN organizations
    \/ /\ request'.op \in {"get_building", "update_building", "delete_building"}
       /\ request'.id \notin DOMAIN buildings

(* C14: a get, update or delete of a category, an update or delete of an    *)
(* organization and a get, update or delete of a building whose id resolves *)
(* to no row is answered 404 and leaves every table as it was, also an      *)
(* update of a category whose patch names that id as parent_id.             *)
C14_NotFoundUnchanged ==
    [][Unresolved => (response'.status = 404 /\ store' = store)]_vars

(* An update of a category that is not stored, its patch naming the same id *)
(* as parent_id                                                             *)
C14_Witness ==
    /\ request.op = "update_activity"
    /\ request.id \notin DOMAIN activities
    /\ request.parent_id = request.id
    /\ response.status = 404
    /\ DOMAIN activities # {}

-----------------------------------------------------------------------------
(* Two requests at a time: each runs in its own session and transaction     *)
(* (get_async_session), and the event loop may switch between them at every *)
(* await that goes to the database. The store variables hold what is        *)
(* committed; request[p] holds the position of session p and what it has    *)
(* written and not yet committed. A statement that meets an uncommitted     *)
(* write of the other transaction on the same key waits for it to end       *)

Sessions == {1, 2}

RaceOrganizations == (1 :> [name |-> "Roga", building_id |-> 2])

Answered(p) == response[p] # NoResponse

(* The session is inside a request that has not been answered *)
At(p, op, pc) ==
    /\ ~Answered(p)
    /\ request[p].op = op
    /\ request[p].pc = pc

(* Organization rows inserted and not yet committed *)
PendingOrganizations ==
    {q \in Sessions : /\ ~Answered(q)
                      /\ request[q].op = "create_organization"}

(* Phone rows inserted and not yet committed *)
PendingPhones ==
    {q \in Sessions : /\ ~Answered(q)
                      /\ request[q].op \in {"create_organization", "update_organization"}
                      /\ request[q].new_phone}

(* The next value of organizations.id *)
NextOrganizationId ==
    Max(DOMAIN organizations \cup {request[q].id : q \in PendingOrganizations} \cup {0}) + 1

(* OrganizationCRUD.create up to the first await: session.add(db_obj), and  *)
(* the autoflush of the first lookup inserts the organization row           *)
race_add_organization(p, building_id, number) ==
    /\ request[p] = NoRequest
    /\ NextOrganizationId <= MaxRows + 1
    /\ request' = [request EXCEPT ![p] =
                      [op |-> "create_organization", pc |-> "select",
                       id |-> NextOrganizationId, building_id |-> building_id,
                       number |-> number, phone |-> None, new_phone |-> FALSE]]
    /\ IF foreign_keys /\ building_id \notin DOMAIN buildings
       THEN response' = [response EXCEPT ![p] = Failed(500, "IntegrityError")]
       ELSE response' = response
    /\ UNCHANGED <<store, foreign_keys>>

(* update_organization up to organization_crud.update: get_object_or_404 *)
race_get_organization(p, organization_id, building_id, number) ==
    /\ request[p] = NoRequest
    /\ request' = [request EXCEPT ![p] =
                      [op |-> "update_organization", pc |-> "select",
                       id |-> organization_id, building_id |-> building_id,
                       number |-> number, phone |-> None, new_phone |-> FALSE]]
    /\ IF organization_id \notin DOMAIN organizations
       THEN response' = [response EXCEPT ![p] = not_found("Organization")]
       ELSE response' = response
    /\ UNCHANGED <<store, foreign_keys>>

(* _get_or_create: select(Phone).filter_by(number=number), first() *)
race_select_phone(p) ==
    /\ \/ At(p, "create_organization", "select")
       \/ At(p, "update_organization", "select")
    /\ LET found == {i \in DOMAIN phones : phones[i] = request[p].number}
       IN request' = [request EXCEPT
                         ![p].phone = IF found = {} THEN None ELSE Min(found),
                         ![p].pc = IF found = {} THEN "flush" ELSE "commit"]
    /\ UNCHANGED <<response, store, foreign_keys>>

(* _get_or_create: session.add(instance), session.flush(). The INSERT waits *)
(* while the other transaction holds an uncommitted row on the unique index *)
(* of phones.number, and is refused if the number is committed by then      *)
race_flush_phone(p) ==
    /\ \/ At(p, "create_organization", "flush")
       \/ At(p, "update_organization", "flush")
    /\ PendingPhones \ {p} = {}
    /\ IF \E i \in DOMAIN phones : phones[i] = request[p].number
       THEN /\ response' = [response EXCEPT ![p] = Failed(500, "IntegrityError")]
            /\ request' = request
       ELSE /\ request' = [request EXCEPT ![p].phone = NextId(phones),
                                          ![p].new_phone = TRUE,
                                          ![p].pc = "commit"]
            /\ response' = response
    /\ UNCHANGED <<store, foreign_keys>>

(* The phones table with the session's own row *)
WithPending(p) ==
    IF request[p].new_phone
    THEN With(phones, request[p].phone, request[p].number)
    ELSE phones

(* OrganizationCRUD.create: session.commit() *)
race_commit_create(p) ==
    /\ At(p, "create_organization", "commit")
    /\ organizations' = With(organizations, request[p].id,
                             [name |-> "Roga", building_id |-> request[p].building_id])
    /\ phones' = WithPending(p)
    /\ organization_phones' = organization_phones \cup {<<request[p].id, request[p].phone>>}
    /\ response' = [response EXCEPT ![p] =
                       IF request[p].building_id \in DOMAIN buildings
                       THEN Ok(request[p].id)
                       ELSE Failed(500, "ResponseValidationError")]
    /\ UNCHANGED <<request, activities, buildings, organization_activities, foreign_keys>>

(* OrganizationCRUD.update: setattr(db_obj, "building_id", ...),            *)
(* session.commit(): the UPDATE, the rows of organization_phones and the    *)
(* COMMIT                                                                   *)
race_commit_update(p) ==
    /\ At(p, "update_organization", "commit")
    /\ IF request[p].id \notin DOMAIN organizations
       THEN /\ response' = [response EXCEPT ![p] = Failed(500, "StaleDataError")]
            /\ UNCHANGED <<organizations, phones, organization_phones>>
       ELSE IF foreign_keys /\ request[p].building_id \notin DOMAIN buildings
       THEN /\ response' = [response EXCEPT ![p] = Failed(500, "IntegrityError")]
            /\ UNCHANGED <<organizations, phones, organization_phones>>
       ELSE /\ organizations' = [organizations EXCEPT
                                    ![request[p].id].building_id = request[p].building_id]
            /\ phones' = WithPending(p)
            /\ organization_phones' =
                   {l \in organization_phones : l[1] # request[p].id}
                       \cup {<<request[p].id, request[p].phone>>}
            /\ response' = [response EXCEPT ![p] =
                               IF request[p].building_id \in DOMAIN buildings
                               THEN Ok(request[p].id)
                               ELSE Failed(500, "ResponseValidationError")]
    /\ UNCHANGED <<request, activities, buildings, organization_activities, foreign_keys>>

(* delete_building up to session.delete: the select with                    *)
(* selectinload(Building.organizations) and the two tests                   *)
race_select_building(p, building_id) ==
    /\ request[p] = NoRequest
    /\ request' = [request EXCEPT ![p] =
                      [op |-> "delete_building", pc |-> "delete", id |-> building_id]]
    /\ response' = [response EXCEPT ![p] =
                       IF building_id \notin DOMAIN buildings
                       THEN Failed(404, "Building not found")
                       ELSE IF OrganizationsOf(organizations, building_id) # {}
                       THEN Failed(400, "organizations reference the building")
                       ELSE NoResponse]
    /\ UNCHANGED <<store, foreign_keys>>

(* delete_building: session.delete(db_building), session.commit(). With     *)
(* foreign keys enforced the DELETE waits for a transaction that has        *)
(* inserted a row referring to the building, and it removes the rows that   *)
(* refer to it (ondelete CASCADE on organizations.building_id and on the    *)
(* secondary tables); without, it removes the building alone                *)
race_delete_building(p) ==
    /\ At(p, "delete_building", "delete")
    /\ foreign_keys =>
          \A q \in PendingOrganizations : request[q].building_id # request[p].id
    /\ LET cascaded == IF foreign_keys
                       THEN OrganizationsOf(organizations, request[p].id)
                       ELSE {}
       IN /\ buildings' = Without(buildings, request[p].id)
          /\ organizations' = [o \in DOMAIN organizations \ cascaded |-> organizations[o]]
          /\ organization_phones' = {l \in organization_phones : l[1] \notin cascaded}
          /\ organization_activities' =
                 {l \in organization_activities : l[1] \notin cascaded}
    /\ response' = [response EXCEPT ![p] = Ok(None)]
    /\ UNCHANGED <<request, activities, phones, foreign_keys>>

(* The response is sent and the session closed: what was not committed is   *)
(* discarded                                                                *)
race_reply(p) ==
    /\ Answered(p)
    /\ request' = [request EXCEPT ![p] = NoRequest]
    /\ response' = [response EXCEPT ![p] = NoResponse]
    /\ UNCHANGED <<store, foreign_keys>>

InitRace ==
    /\ activities = EmptyTable
    /\ buildings = SeedBuildings
    /\ organizations = RaceOrganizations
    /\ phones = EmptyTable
    /\ organization_phones = {}
    /\ organization_activities = {}
    /\ foreign_keys \in BOOLEAN
    /\ request = [p \in Sessions |-> NoRequest]
    /\ response = [p \in Sessions |-> NoResponse]

NextRace ==
    \/ \E p \in Sessions, number \in PhoneNumbers : race_add_organization(p, 1, number)
    \/ \E p \in Sessions, number \in PhoneNumbers : race_get_organization(p, 1, 1, number)
    \/ \E p \in Sessions : race_select_phone(p)
    \/ \E p \in Sessions : race_flush_phone(p)
    \/ \E p \in Sessions : race_commit_create(p)
    \/ \E p \in Sessions : race_commit_update(p)
    \/ \E p \in Sessions : race_select_building(p, 1)
    \/ \E p \in Sessions : race_delete_building(p)
    \/ \E p \in Sessions : race_reply(p)

SpecRace == InitRace /\ [][NextRace]_vars

(* C24: a create or update of an organization that names a phone number is  *)
(* not refused over that number, whatever the other session does: if the    *)
(* organization is there and its building exists, the request succeeds      *)
C24_BothSucceed ==
    \A p \in Sessions :
        (/\ request[p] # NoRequest
         /\ request[p].op \in {"create_organization", "update_organization"}
         /\ Answered(p)
         /\ response[p].status # 404
         /\ request[p].building_id \in DOMAIN buildings
         /\ request[p].op = "update_organization" => request[p].id \in DOMAIN organizations)
        => response[p].status = 200

(* C25: when delete-building is answered with success, no committed         *)
(* organization refers to the deleted building                              *)
C25_GuardUnderInterleaving ==
    [][\A p \in Sessions :
          (/\ ~Answered(p)
           /\ request[p] # NoRequest
           /\ request[p].op = "delete_building"
           /\ response'[p].status = 200)
          => \A o \in DOMAIN organizations' :
                organizations'[o].building_id # request[p].id]_vars

-----------------------------------------------------------------------------
(* Organizations and categories under create, update and delete together *)

LinkCreates == {c \in OrganizationCreates : c.building_id = 1}

LinkPatches ==
    {p \in OrganizationPatches : p.fields_set \subseteq {"phone_numbers", "activity_ids"}}

RootCreates == {c \in ActivityCreates : c.name = "Food" /\ c.parent_id = None /\ c.level = 1}

RootPatches == {p \in ParentPatches : p.parent_id = None}

InitLinks ==
    /\ activities = SeedActivities
    /\ buildings = SeedBuildings
    /\ organizations = EmptyTable
    /\ phones = EmptyTable
    /\ organization_phones = {}
    /\ organization_activities = {}
    /\ foreign_keys \in BOOLEAN
    /\ request = NoRequest
    /\ response = NoResponse

NextLinks ==
    \/ Idle /\ \E organization_in \in LinkCreates : create_organization(organization_in)
    \/ Idle /\ \E organization_id \in 1..MaxOrganizations,
                   organization_in \in LinkPatches :
           update_organization(organization_id, organization_in)
    \/ Idle /\ \E organization_id \in 1..MaxOrganizations :
           delete_organization(organization_id)
    \/ Idle /\ \E activity_in \in RootCreates : create_activity(activity_in)
    \/ Idle /\ \E activity_id \in RowIds, activity_in \in RootPatches :
           update_activity(activity_id, activity_in)
    \/ Idle /\ \E activity_id \in RowIds : delete_activity(activity_id)
    \/ reply

SpecLinks == InitLinks /\ [][NextLinks]_vars

(* C26: every row of the two secondary tables names an organization that    *)
(* exists and a category or a phone that exists                             *)
C26_LinksResolve ==
    /\ \A l \in organization_activities :
          l[1] \in DOMAIN organizations /\ l[2] \in DOMAIN activities
    /\ \A l \in organization_phones :
          l[1] \in DOMAIN organizations /\ l[2] \in DOMAIN phones

(* Category 1 has just been deleted, and the organization that was created  *)
(* or updated with the categories 2 and 1 keeps its link to 2 and its phone *)
C26_Witness ==
    /\ request.op = "delete_activity"
    /\ request.id = 1
    /\ response.status = 200
    /\ organization_activities = {<<1, 2>>}
    /\ organization_phones = {<<1, 1>>}

-----------------------------------------------------------------------------
(* Properties of the organization and building handlers *)

UpdatesOrganization ==
    /\ request'.op = "update_organization"
    /\ request'.id \in DOMAIN organizations

Committed == response'.error # "IntegrityError"

C17_BuildingResolves ==
    \A o \in DOMAIN organizations : organizations[o].building_id \in DOMAIN buildings

(* A create or an update of an existing organization whose lists name the   *)
(* same phone number or the same category more than once, with a building   *)
(* that exists                                                              *)
RepeatsAnElement ==
    /\ \/ /\ request'.op = "create_organization"
          /\ request'.building_id \in DOMAIN buildings
          /\ \/ HasDuplicates(request'.phone_numbers)
             \/ HasDuplicates(request'.activity_ids)
       \/ /\ UpdatesOrganization
          /\ "building_id" \notin request'.patch.fields_set
          /\ \/ HasDuplicates(request'.patch.phone_numbers)
             \/ HasDuplicates(request'.patch.activity_ids)

(* C16: a create or update of an organization whose phone or category list  *)
(* names the same element more than once is committed, never refused with   *)
(* an integrity error                                                       *)
C16_RepeatedIsNoOp ==
    [][RepeatsAnElement => response'.error # "IntegrityError"]_vars

(* C15: a create or update of an organization that the database refuses    *)
(* at a flush or at the commit leaves every table as it was before the      *)
(* request: no phone row, no link and no field of the organization changes. *)
C15_FailureRollsBack ==
    [][(/\ request'.op \in {"create_organization", "update_organization"}
        /\ response'.error = "IntegrityError")
       => store' = store]_vars

(* An update refused at the commit after it had created a phone row and     *)
(* replaced the organization's links                                        *)
C15_Witness ==
    /\ request.op = "update_organization"
    /\ request.id \in DOMAIN organizations
    /\ request.patch.phone_numbers = <<"2-222-222">>
    /\ request.patch.activity_ids = <<>>
    /\ response.error = "IntegrityError"
    /\ phones = EmptyTable
    /\ Linked(organization_activities, request.id) # {}

C8_DeleteBuildingGuard ==
    [][(request'.op = "delete_building" /\ request'.id \in DOMAIN buildings)
          => IF \E o \in DOMAIN organizations :
                    organizations[o].building_id = request'.id
             THEN response'.status = 400 /\ store' = store
             ELSE /\ response'.status = 200
                  /\ buildings' = Without(buildings, request'.id)
                  /\ organizations' = organizations]_vars

C8_Witness ==
    /\ request.op = "delete_building"
    /\ response.status = 400
    /\ request.id \in DOMAIN buildings
    /\ \E o \in DOMAIN organizations : organizations[o].building_id = request.id

(* C9 as stated: creating an organization whose building_id names no        *)
(* building is answered with a validation error and stores nothing          *)
C9_MissingBuildingRejected ==
    [][(request'.op = "create_organization" /\ request'.building_id \notin DOMAIN buildings)
          => /\ response'.status \in {400, 422}
             /\ store' = store]_vars

-----------------------------------------------------------------------------
(* Properties of the by-location lookup *)

(* C7: a query with a radius is answered with the page of the radius        *)
(* predicate whatever bounds it carries; one without a radius and with all  *)
(* four bounds with the page of the box predicate; any other is answered    *)
(* 400 without a result                                                     *)
C7_FilterRule ==
    request.op = "get_organizations_by_location" =>
        LET params == request.params
            inRadius == {o \in DOMAIN organizations :
                            InRadius(buildings[organizations[o].building_id], params)}
            inBox == {o \in DOMAIN organizations :
                         InBox(buildings[organizations[o].building_id], params)}
        IN IF params.radius # <<>>
           THEN response = Ok(Page(SortedSeq(inRadius), request.offset, request.limit))
           ELSE IF /\ params.min_lat # <<>> /\ params.max_lat # <<>>
                   /\ params.min_lon # <<>> /\ params.max_lon # <<>>
           THEN response = Ok(Page(SortedSeq(inBox), request.offset, request.limit))
           ELSE response = Failed(400, "radius or bounds required")

C7_Witness ==
    /\ request.op = "get_organizations_by_location"
    /\ request.params.radius = <<0>>
    /\ request.params.min_lat # <<>> /\ request.params.max_lat = <<>>
    /\ request.offset = 0
    /\ response.status = 200
    /\ response.body = <<2>>

(* C21: a by-location lookup that is answered returns the page of exactly   *)
(* the organizations whose building lies within the radius, measured as     *)
(* squared distance against the squared radius with the boundary included,  *)
(* or else inside the box with all four bounds included; a box whose        *)
(* minimum exceeds its maximum matches nothing                              *)
C21_LocationPredicate ==
    (request.op = "get_organizations_by_location" /\ response.status = 200) =>
        LET p == request.params
            near(b) ==
                LET dlat == b.latitude - p.lat
                    dlon == b.longitude - p.lon
                IN dlat * dlat + dlon * dlon <= p.radius[1] * p.radius[1]
            boxed(b) ==
                /\ p.min_lat[1] <= b.latitude /\ b.latitude <= p.max_lat[1]
                /\ p.min_lon[1] <= b.longitude /\ b.longitude <= p.max_lon[1]
            matching ==
                {o \in DOMAIN organizations :
                    IF p.radius # <<>>
                    THEN near(buildings[organizations[o].building_id])
                    ELSE boxed(buildings[organizations[o].building_id])}
        IN /\ response.body = Page(SortedSeq(matching), request.offset, request.limit)
           /\ (/\ p.radius = <<>>
               /\ \/ p.min_lat[1] > p.max_lat[1]
                  \/ p.min_lon[1] > p.max_lon[1])
                 => response.body = <<>>

(* A radius of 1 around (0, 0): the building at squared distance 1 is in,   *)
(* the one at squared distance 2 is out                                     *)
C21_Witness ==
    /\ request.op = "get_organizations_by_location"
    /\ request.params.radius = <<1>>
    /\ request.params.lat = 0 /\ request.params.lon = 0
    /\ buildings[1].latitude = 1 /\ buildings[1].longitude = 0
    /\ buildings[2].latitude = 1 /\ buildings[2].longitude = 1
    /\ request.offset = 0 /\ request.limit = 2
    /\ response.body = <<1>>

====
